---- MODULE Spec2Model ----
(***************************************************************************)
(* Model of netlify/functions/index.js: an Express application wrapped by  *)
(* serverless-http, with a Sequelize model User over the table "users".    *)
(*                                                                         *)
(* A request runs through the middleware chain (body normalizer,           *)
(* express.json / express.urlencoded, router) up to its response or up to  *)
(* its first await (User.create or User.findAll).  The awaited store       *)
(* operation settles in a second step, and the handler goes on after the   *)
(* await in a third, so that other requests run between the moment the     *)
(* database executes a statement and the moment its result is answered.    *)
(* connectToDatabase awaits twice in the same way: the database creates the *)
(* table while it is suspended at the await of sync.                       *)
(*                                                                         *)
(* A string that the code inspects (name, email, phone) is the sequence of *)
(* its UTF-16 code units.  The text of a raw body is a run of whitespace   *)
(* followed by a document: nothing, the JSON text of a value, the text of  *)
(* a form (name=...&email=...), or something else JSON.parse rejects.  The *)
(* body parsers read the bytes of the request again, from its stream.      *)
(***************************************************************************)
EXTENDS Naturals, Sequences, FiniteSets, TLC

VARIABLES
    rows,        \* the rows of table "users", in insertion order
    nextId,      \* the next value of the id column's sequence
    now,         \* the clock that stamps createdAt
    tableReady,  \* the table "users" exists with the declared columns
    startup,     \* connectToDatabase: "pending", "authenticated", "ok", "failed"
    reqs         \* the requests received so far, each with its position

vars == <<rows, nextId, now, tableReady, startup, reqs>>

(* ---------------------------------------------------------------- bounds *)

\* Requests received in one behaviour of the concurrent specification.
MaxReqs == 3
\* Requests received in one behaviour of the wide-input specification.
MaxWideReqs == 1

(* ------------------------------------------------------------- JS values *)

Undef == [t |-> "undefined"]
Null == [t |-> "null"]
Str(s) == [t |-> "string", v |-> s]
Obj(n, e, p) == [t |-> "object", name |-> n, email |-> e, phone |-> p]
EmptyObj == Obj(Undef, Undef, Undef)

\* The text of a body: ws whitespace characters, then a document: nothing; the
\* JSON text of the value o; the urlencoded form of the fields of the object
\* o; or text that is neither JSON nor a form with one of the three fields
NoDoc == [t |-> "none"]
Garbage == [t |-> "garbage"]
JsonDoc(o) == [t |-> "json", v |-> o]
FormDoc(o) == [t |-> "form", v |-> o]
Text(n, d) == [ws |-> n, doc |-> d]

Buffer(text) == [t |-> "buffer", text |-> text]
StrBody(text) == [t |-> "text", text |-> text]

\* typeof x
typeof(x) ==
    CASE x.t = "undefined" -> "undefined"
      [] x.t \in {"string", "text"} -> "string"
      [] OTHER -> "object"

\* Falsy with only undefined counted: the check "x === undefined" for "!x"
Falsy_UndefinedOnly(x) == x.t = "undefined"

\* !x for the values a body or a field can be
Falsy(x) ==
    \/ x.t \in {"undefined", "null"}
    \/ x.t = "string" /\ x.v = <<>>
    \/ x.t = "text" /\ x.text = Text(0, NoDoc)

\* x.key, as object destructuring reads it: undefined unless x is an object
\* that has the key
Prop(x, key) ==
    IF x.t = "object"
    THEN CASE key = "name" -> x.name
           [] key = "email" -> x.email
           [] key = "phone" -> x.phone
    ELSE Undef

(* --------------------------------------------------------------- strings *)

Range(f) == {f[k] : k \in DOMAIN f}

\* TrimIsEmpty without the trim: "if (bodyString)" for "if (bodyString.trim())"
TrimIsEmpty_NoTrim(text) == text.ws = 0 /\ text.doc = NoDoc

\* String.prototype.trim on a body text: is anything left?
TrimIsEmpty(text) == text.doc = NoDoc

\* JSON.parse on a body text
JSONparse(text) ==
    IF text.doc.t = "json"
    THEN [ok |-> TRUE, value |-> text.doc.v]
    ELSE [ok |-> FALSE, value |-> Undef]

\* The code units a regular expression's \s matches: \t \n \v \f \r, space,
\* U+00A0, U+1680, U+2000..U+200A, U+2028, U+2029, U+202F, U+205F, U+3000, U+FEFF
Whitespace ==
    {9, 10, 11, 12, 13, 32, 160, 5760} \cup (8192..8202)
    \cup {8232, 8233, 8239, 8287, 12288, 65279}

Letters == (65..90) \cup (97..122)
Digits == 48..57

\* validate: { notEmpty: true }: the string does not match /^[\s\t\r\n]*$/
notEmpty(s) == \E i \in 1..Len(s) : s[i] \notin Whitespace

\* str.lastIndexOf(c), counted from 1; 0 when c does not occur
lastIndexOf(s, c) ==
    IF \E i \in 1..Len(s) : s[i] = c
    THEN CHOOSE i \in 1..Len(s) : s[i] = c /\ \A j \in (i + 1)..Len(s) : s[j] # c
    ELSE 0

\* str.split(c)
RECURSIVE split(_, _)
split(s, c) ==
    IF \A i \in 1..Len(s) : s[i] # c
    THEN <<s>>
    ELSE LET k == CHOOSE i \in 1..Len(s) : s[i] = c /\ \A j \in 1..(i - 1) : s[j] # c
         IN <<SubSeq(s, 1, k - 1)>> \o split(SubSeq(s, k + 1, Len(s)), c)

\* The code unit c lies between lo and hi
Between(c, lo, hi) == c >= lo /\ c <= hi

HighSurrogate(c) == Between(c, 55296, 56319)
LowSurrogate(c) == Between(c, 56320, 57343)

\* The code unit at i is a surrogate without its partner
LoneSurrogate(s, i) ==
    \/ HighSurrogate(s[i]) /\ (i = Len(s) \/ ~LowSurrogate(s[i + 1]))
    \/ LowSurrogate(s[i]) /\ (i = 1 \/ ~HighSurrogate(s[i - 1]))

\* encodeURI(s) does not throw URIError
WellFormed(s) == \A i \in 1..Len(s) : ~LoneSurrogate(s, i)

\* The length of s in UTF-8, which is what isByteLength counts: one byte below
\* U+0080, two below U+0800, four for a surrogate pair, three otherwise
ByteLength(s) ==
    Len(s)
    + Cardinality({i \in 1..Len(s) : s[i] >= 128})
    + Cardinality({i \in 1..Len(s) :
                      s[i] >= 2048 /\ ~HighSurrogate(s[i]) /\ ~LowSurrogate(s[i])})

\* U+00A1..U+D7FF, U+F900..U+FDCF, U+FDF0..U+FFEF
Utf8Part(c) ==
    Between(c, 161, 55295) \/ Between(c, 63744, 64975) \/ Between(c, 65008, 65519)

\* emailUserUtf8Part: a character of an unquoted user part is a letter, a
\* digit, one of !#$%&'*+-/=?^_`{|}~ or one of the characters above
emailUserUtf8Part(c) ==
    \/ c \in Letters \cup Digits
    \/ c \in {33, 35, 36, 37, 38, 39, 42, 43, 45, 47, 61, 63,
              94, 95, 96, 123, 124, 125, 126}
    \/ Utf8Part(c)

\* A character of a quoted user part: whitespace, U+0001..U+0008, U+000B,
\* U+000C, U+000E..U+001F, U+007F, U+0021, U+0023..U+005B, U+005D..U+007E,
\* U+00A0 or one of the characters above
QuotedText(c) ==
    \/ c \in Whitespace
    \/ Between(c, 1, 8) \/ c \in {11, 12} \/ Between(c, 14, 31) \/ c \in {127, 33}
    \/ Between(c, 35, 91) \/ Between(c, 93, 126)
    \/ c = 160 \/ Utf8Part(c)

\* A character that may follow a backslash in a quoted user part
QuotedPair(c) ==
    \/ Between(c, 1, 9) \/ c \in {11, 12} \/ Between(c, 13, 127)
    \/ c = 160 \/ Utf8Part(c)

\* quotedEmailUserUtf8.test(s): characters of the quoted text, or a backslash
\* and the character it quotes, to the end of s
RECURSIVE quotedEmailUserUtf8(_)
quotedEmailUserUtf8(s) ==
    IF s = <<>>
    THEN TRUE
    ELSE IF QuotedText(s[1])
         THEN quotedEmailUserUtf8(Tail(s))
         ELSE /\ s[1] = 92
              /\ Len(s) >= 2
              /\ QuotedPair(s[2])
              /\ quotedEmailUserUtf8(SubSeq(s, 3, Len(s)))

\* The top-level domain: two or more letters (or U+00A1..U+00A8,
\* U+00AA..U+D7FF, U+F900..U+FDCF, U+FDF0..U+FFEF), or xn and two or more of
\* [a-z0-9-]; no whitespace; not all digits
TopLevelDomain(tld) ==
    /\ \/ /\ Len(tld) >= 2
          /\ \A i \in 1..Len(tld) :
                tld[i] \in Letters \/ (Utf8Part(tld[i]) /\ tld[i] # 169)
       \/ /\ Len(tld) >= 4
          /\ tld[1] \in {120, 88}
          /\ tld[2] \in {110, 78}
          /\ \A i \in 3..Len(tld) : tld[i] \in Letters \cup Digits \cup {45}
    /\ \A i \in 1..Len(tld) : tld[i] \notin Whitespace
    /\ \E i \in 1..Len(tld) : tld[i] \notin Digits

\* One label of a domain: 1 to 63 code units, each a letter, a digit, a hyphen
\* or U+00A1..U+FFFF, none of them full-width (U+FF01..U+FF5E), no hyphen first
\* or last, no underscore
DomainLabel(part) ==
    /\ Len(part) >= 1
    /\ Len(part) <= 63
    /\ \A i \in 1..Len(part) :
          /\ part[i] \in Letters \cup Digits \cup {45} \/ Between(part[i], 161, 65535)
          /\ ~Between(part[i], 65281, 65374)
    /\ part[1] # 45
    /\ part[Len(part)] # 45

\* isFQDN(str) with the options isEmail passes: a top-level domain is required
isFQDN(str) ==
    \E parts \in {split(str, 46)} :
        /\ Len(parts) >= 2
        /\ TopLevelDomain(parts[Len(parts)])
        /\ \A k \in 1..Len(parts) : DomainLabel(parts[k])

\* The part of an address before its last "@" and the part after it
emailUser(str) == SubSeq(str, 1, lastIndexOf(str, 64) - 1)
emailDomain(str) == SubSeq(str, lastIndexOf(str, 64) + 1, Len(str))

\* isEmail(str) throws: isByteLength calls encodeURI on the user part, and on
\* the domain when the user part is short enough, and encodeURI throws
\* URIError for a surrogate without its partner
isEmailThrows(str) ==
    /\ Len(str) <= 254
    /\ \/ ~WellFormed(emailUser(str))
       \/ ByteLength(emailUser(str)) <= 64 /\ ~WellFormed(emailDomain(str))

\* validate: { isEmail: true }: isEmail(str) of validator.js with its default
\* options.  At most 254 code units; the user part at most 64 bytes and the
\* domain at most 254; the domain a fully qualified domain name; the user part
\* either quoted, or dot-separated atoms of the allowed characters
isEmail(str) ==
    \E user \in {emailUser(str)}, domain \in {emailDomain(str)} :
        /\ Len(str) <= 254
        /\ WellFormed(user) /\ ByteLength(user) <= 64
        /\ WellFormed(domain) /\ ByteLength(domain) <= 254
        /\ isFQDN(domain)
        /\ IF user # <<>> /\ user[1] = 34
           THEN quotedEmailUserUtf8(SubSeq(user, 2, Len(user) - 1))
           ELSE \A atom \in Range(split(user, 46)) :
                   /\ atom # <<>>
                   /\ \A i \in 1..Len(atom) : emailUserUtf8Part(atom[i])

(* ------------------------------------------------------------- responses *)

\* The JSON value of a "details" field: a string or an array of strings
DetailText(s) == [t |-> "string", s |-> s]
DetailList(l) == [t |-> "array", l |-> l]

\* An error handed to next(err): status 0 is an error that declares none
NoError == [t |-> "none"]
Err(status, message) == [t |-> "error", status |-> status, message |-> message]

\* The promise a handler awaits: pending, resolved with a value, or rejected
\* with an error that has a name and, for a validation error, its messages
Pending == [t |-> "pending"]
Resolved(value) == [t |-> "resolved", value |-> value]
Rejected(name, messages) == [t |-> "rejected", name |-> name, messages |-> messages]

\* res.status(status).json(body): the response is recorded and the request ends
Respond(q, status, body) ==
    [q EXCEPT !.res = Append(@, [status |-> status, body |-> body]),
              !.pc = "done"]

\* A request as the exported handler hands it to the application
NewRequest(in) ==
    [method |-> in.method, path |-> in.path, given |-> in.body,
     type |-> in.type, fault |-> in.fault,
     perr |-> NoError, body |-> in.body, pc |-> "normalizer", res |-> <<>>,
     routed |-> "none", createCalls |-> 0, queries |-> 0, stamp |-> 0,
     avail |-> "none", cause |-> "none", result |-> Pending]

(* ------------------------------------------------------------ middleware *)

methodsWithBody == {"POST", "PUT", "PATCH"}

\* bodyNormalizer with the parse error swallowed: the catch block sets the
\* empty object and goes on
bodyNormalizer_SwallowsParseError(q) ==
    IF q.method \in methodsWithBody /\ q.body.t = "buffer"
    THEN LET parsed == JSONparse(q.body.text)
         IN IF ~TrimIsEmpty(q.body.text) /\ parsed.ok
            THEN [q EXCEPT !.body = parsed.value, !.pc = "parsers"]
            ELSE [q EXCEPT !.body = EmptyObj, !.pc = "parsers"]
    ELSE IF q.method \in methodsWithBody /\ Falsy(q.body)
         THEN [q EXCEPT !.body = EmptyObj, !.pc = "parsers"]
         ELSE [q EXCEPT !.pc = "parsers"]

\* bodyNormalizer without the return in its catch block: it answers 400 and
\* calls next() all the same
bodyNormalizer_NoReturn(q) ==
    IF q.method \in methodsWithBody /\ q.body.t = "buffer"
    THEN LET parsed == JSONparse(q.body.text)
         IN IF ~TrimIsEmpty(q.body.text)
            THEN IF parsed.ok
                 THEN [q EXCEPT !.body = parsed.value, !.pc = "parsers"]
                 ELSE [Respond(q, 400,
                          [error |-> "Formato de datos inválido",
                           details |-> DetailText("No se pudo parsear el JSON")])
                       EXCEPT !.pc = "parsers"]
            ELSE [q EXCEPT !.body = EmptyObj, !.pc = "parsers"]
    ELSE IF q.method \in methodsWithBody /\ Falsy(q.body)
         THEN [q EXCEPT !.body = EmptyObj, !.pc = "parsers"]
         ELSE [q EXCEPT !.pc = "parsers"]

\* app.use('/api', ...): the body normalizer
bodyNormalizer(q) ==
    IF q.method \in methodsWithBody /\ q.body.t = "buffer"
    THEN LET bodyString == q.body.text
             parsed == JSONparse(bodyString)
         IN IF ~TrimIsEmpty(bodyString)
            THEN IF parsed.ok
                 THEN [q EXCEPT !.body = parsed.value, !.pc = "parsers"]
                 ELSE Respond(q, 400,
                         [error |-> "Formato de datos inválido",
                          details |-> DetailText("No se pudo parsear el JSON")])
            ELSE [q EXCEPT !.body = EmptyObj, !.pc = "parsers"]
    ELSE IF q.method \in methodsWithBody /\ Falsy(q.body)
         THEN [q EXCEPT !.body = EmptyObj, !.pc = "parsers"]
         ELSE [q EXCEPT !.pc = "parsers"]

\* The bytes a body parser reads from the stream of the request: those the
\* body was made of
Stream(b) ==
    CASE b.t \in {"buffer", "text"} -> b.text
      [] b.t = "object" -> Text(0, JsonDoc(b))
      [] OTHER -> Text(0, NoDoc)

\* The charset of a request whose charset is not utf-8
OtherCharset == "ISO-8859-1"

\* The error of a body parser for a charset it does not read
unsupportedCharset == Err(415, "unsupported charset \"" \o OtherCharset \o "\"")

\* The error of a body parser for more bytes than its limit of 50mb
entityTooLarge == Err(413, "request entity too large")

\* express.json({ limit, type: ['application/json', 'text/plain'] }) up to its
\* reading of the stream.  It sets req.body = req.body || {}; a request that
\* is not of one of its types goes on to the next middleware; one in a charset
\* that is not utf-8 gets the error 415 through next(err), past the router;
\* any other it starts to read, and returns
expressJson(q) ==
    LET h == [q EXCEPT !.body = IF Falsy(@) THEN EmptyObj ELSE @]
    IN IF q.type # "json"
       THEN h
       ELSE IF q.fault = "charset"
            THEN [h EXCEPT !.perr = unsupportedCharset, !.pc = "error"]
            ELSE [h EXCEPT !.pc = "read"]

\* express.json when the stream has been read, in a later turn of the event
\* loop: the error 413 for more bytes than the limit; else req.body is
\* replaced by what the bytes parse to: {} for no bytes at all; in strict mode
\* an error with status 400 for text whose first non-blank character is not
\* "{" or "[" (there is none in whitespace), and for text JSON.parse rejects
expressJsonRead(q) ==
    LET bytes == Stream(q.given)
    IN IF q.fault = "tooLarge"
       THEN [q EXCEPT !.perr = entityTooLarge, !.pc = "error"]
       ELSE IF bytes = Text(0, NoDoc)
            THEN [q EXCEPT !.body = EmptyObj, !.pc = "router"]
            ELSE IF bytes.doc.t = "json" /\ bytes.doc.v.t = "object"
                 THEN [q EXCEPT !.body = bytes.doc.v, !.pc = "router"]
                 ELSE [q EXCEPT !.perr = Err(400, IF bytes.doc = NoDoc
                                                  THEN "Unexpected end of JSON input"
                                                  ELSE "Unexpected token"),
                                !.pc = "error"]

\* express.urlencoded({ extended: true, limit }) up to its reading of the
\* stream: a request that is not a form goes on to the router (one that
\* express.json has read does not come here as a form); one in a charset that
\* is not utf-8 gets the error 415; any other it starts to read, and returns
expressUrlencoded(q) ==
    IF q.type # "form"
    THEN [q EXCEPT !.pc = "router"]
    ELSE IF q.fault = "charset"
         THEN [q EXCEPT !.perr = unsupportedCharset, !.pc = "error"]
         ELSE [q EXCEPT !.pc = "read"]

\* express.urlencoded when the stream has been read: the error 413 for more
\* bytes than the limit; else req.body is replaced by the object of the fields
\* of the bytes; text that is no form of name, email or phone gives an object
\* without them
expressUrlencodedRead(q) ==
    LET bytes == Stream(q.given)
    IN IF q.fault = "tooLarge"
       THEN [q EXCEPT !.perr = entityTooLarge, !.pc = "error"]
       ELSE [q EXCEPT !.body = IF bytes.doc.t = "form" THEN bytes.doc.v
                               ELSE EmptyObj,
                      !.pc = "router"]

\* express.json and express.urlencoded, mounted after the normalizer, up to
\* the reading of the stream by the one that reads the request
bodyParsers(q) ==
    LET q1 == expressJson(q)
    IN IF q1.pc = "parsers" THEN expressUrlencoded(q1) ELSE q1

\* The parser that reads the request, from the end of its read on
bodyParsersRead(q) ==
    IF q.type = "json" THEN expressJsonRead(q) ELSE expressUrlencodedRead(q)

\* The final error middleware
errorMiddleware(q) ==
    LET err == q.perr
        status == IF err.status # 0 THEN err.status ELSE 500
        message == IF err.message # "" THEN err.message ELSE err
    IN Respond([q EXCEPT !.routed = "errorMiddleware"], status,
               [error |-> message])

(* ---------------------------------------------------------------- routes *)

\* getSaludo with a store operation: a greeting that pings the database
getSaludo_PingsStore(q) ==
    Respond([q EXCEPT !.routed = "saludo", !.queries = @ + 1], 200,
            [message |-> "¡Hola desde mi API de Express en Netlify con BD!"])

\* router.get('/saludo')
getSaludo(q) ==
    Respond([q EXCEPT !.routed = "saludo"], 200,
            [message |-> "¡Hola desde mi API de Express en Netlify con BD!"])

\* createCatch with the internal error in the 500 body
createCatch_Leaky(q, errorName, messages) ==
    LET c == [q EXCEPT !.cause = errorName]
    IN IF errorName = "SequelizeUniqueConstraintError"
       THEN Respond(c, 409, [error |-> "El email ya está registrado"])
       ELSE IF errorName = "SequelizeValidationError"
            THEN Respond(c, 400, [error |-> "Datos de entrada inválidos",
                                  details |-> DetailList(messages)])
            ELSE Respond(c, 500, [error |-> errorName])

\* The catch block of router.post('/newUser'), by the name of the error
createCatch(q, errorName, messages) ==
    LET c == [q EXCEPT !.cause = errorName]
    IN IF errorName = "SequelizeUniqueConstraintError"
       THEN Respond(c, 409, [error |-> "El email ya está registrado"])
       ELSE IF errorName = "SequelizeValidationError"
            THEN Respond(c, 400, [error |-> "Datos de entrada inválidos",
                                  details |-> DetailList(messages)])
            ELSE Respond(c, 500,
                    [error |-> "Error interno del servidor al crear el usuario"])

\* router.post('/newUser') up to the call of User.create at time t
postNewUser(q, t) ==
    LET h == [q EXCEPT !.routed = "newUser"]
        name == Prop(q.body, "name")
        email == Prop(q.body, "email")
        phone == Prop(q.body, "phone")
    IN IF q.body.t \in {"undefined", "null"}
       THEN createCatch(h, "TypeError", <<>>)
       ELSE IF Falsy(name) \/ Falsy(email) \/ Falsy(phone)
            THEN Respond(h, 400,
                    [error |-> "Todos los campos son requeridos: name, email, phone",
                     received |-> [name |-> name, email |-> email, phone |-> phone],
                     bodyType |-> typeof(q.body)])
            ELSE [h EXCEPT !.pc = "create", !.createCalls = @ + 1, !.stamp = t]

\* router.post('/newUser') from the await of User.create on: the 201 with the
\* new user, or the catch block with the error User.create rejected with
postNewUserResumes(q) ==
    IF q.result.t = "resolved"
    THEN Respond(q, 201, [message |-> "Usuario creado exitosamente",
                          user |-> q.result.value])
    ELSE createCatch(q, q.result.name, q.result.messages)

\* router.get('/allUsers') up to the call of User.findAll
getAllUsers(q) == [q EXCEPT !.routed = "allUsers", !.pc = "findAll"]

\* The catch block of router.get('/allUsers')
listCatch(q, errorName) ==
    Respond([q EXCEPT !.cause = errorName], 500,
            [error |-> "Error interno del servidor al obtener los usuarios"])

\* router.get('/allUsers') from the await of User.findAll on
getAllUsersResumes(q) ==
    IF q.result.t = "resolved"
    THEN Respond(q, 200, [message |-> "Usuarios obtenidos exitosamente",
                          count |-> Len(q.result.value),
                          users |-> q.result.value])
    ELSE listCatch(q, q.result.name)

\* app.use('/api/', router)
router(q, t) ==
    CASE q.method = "GET" /\ q.path = "/saludo" -> getSaludo(q)
      [] q.method = "POST" /\ q.path = "/newUser" -> postNewUser(q, t)
      [] q.method = "GET" /\ q.path = "/allUsers" -> getAllUsers(q)

\* What follows the body parsers: the router for a request they pass on, the
\* error middleware for one they pass an error for
afterParsers(q, t) ==
    LET q3 == IF q.pc = "router" THEN router(q, t) ELSE q
    IN IF q3.pc = "error" THEN errorMiddleware(q3) ELSE q3

\* The application: the middleware chain in the order the code mounts it, up
\* to the response, to the first await of a handler, or to the point where a
\* body parser waits for the stream
app(q0, t) ==
    LET q1 == bodyNormalizer(q0)
        q2 == IF q1.pc = "parsers" THEN bodyParsers(q1) ELSE q1
    IN afterParsers(q2, t)

\* The chain from the end of a body parser's read on
appResumes(q, t) == afterParsers(bodyParsersRead(q), t)

(* ----------------------------------------------------------------- store *)

\* The message of a built-in validator that fails
ValidationMessage(validator, attr) ==
    "Validation " \o validator \o " on " \o attr \o " failed"

\* validate: { notEmpty: true } on one attribute: the messages it adds
checkNotEmpty(attr, value) ==
    IF notEmpty(value) THEN <<>> ELSE <<ValidationMessage("notEmpty", attr)>>

\* validate: { isEmail: true } on one attribute: an error thrown by the
\* validator is reported with its own message
checkIsEmail(attr, value) ==
    IF isEmailThrows(value)
    THEN <<"URI malformed">>
    ELSE IF isEmail(value) THEN <<>> ELSE <<ValidationMessage("isEmail", attr)>>

\* userValidate without isEmail on email
userValidate_NoEmailShape(name, email, phone) ==
    checkNotEmpty("name", name)
    \o checkNotEmpty("email", email)
    \o checkNotEmpty("phone", phone)

\* The validate blocks of the User model, attribute by attribute, each
\* attribute's validators in the order they are declared
userValidate(name, email, phone) ==
    checkNotEmpty("name", name)
    \o checkIsEmail("email", email) \o checkNotEmpty("email", email)
    \o checkNotEmpty("phone", phone)

\* DataTypes.STRING is the column type varchar(255)
ColumnWidth == 255

\* The text the driver sends for a string: UTF-8, in which a surrogate without
\* its partner is replaced by U+FFFD
toUtf8(s) == [i \in 1..Len(s) |-> IF LoneSurrogate(s, i) THEN 65533 ELSE s[i]]

\* The number of characters of a text: a surrogate pair is one character
Characters(t) == Len(t) - Cardinality({i \in 1..Len(t) : HighSurrogate(t[i])})

\* The database rejects the text: it holds the character U+0000
hasNul(s) == \E i \in 1..Len(s) : s[i] = 0

\* The database rejects the text for a varchar(255) column: it has more than
\* 255 characters and those in excess are not all spaces
tooLong(s) ==
    LET t == toUtf8(s)
        excess == Characters(t) - ColumnWidth
    IN /\ Characters(t) > ColumnWidth
       /\ \E i \in (Len(t) - excess + 1)..Len(t) : t[i] # 32

\* What a varchar(255) column stores of a text it accepts: the text, without
\* the spaces in excess of 255 characters
varchar(s) ==
    LET t == toUtf8(s)
    IN IF Characters(t) <= ColumnWidth
       THEN t
       ELSE SubSeq(t, 1, Len(t) - (Characters(t) - ColumnWidth))

\* NewRow with the phone written to the name column
NewRow_PhoneAsName(id, name, email, phone, t) ==
    [id |-> id, name |-> varchar(phone), email |-> varchar(email),
     phone |-> varchar(phone), createdAt |-> t, updatedAt |-> t]

\* The row an insert writes and returns: id from the sequence, timestamps from
\* the stamp
NewRow(id, name, email, phone, t) ==
    [id |-> id, name |-> varchar(name), email |-> varchar(email),
     phone |-> varchar(phone), createdAt |-> t, updatedAt |-> t]

\* EmailTaken without the unique index
EmailTaken_Never(email) == FALSE

\* unique: true on email
EmailTaken(email) == \E k \in 1..Len(rows) : rows[k].email = email

\* OrderedDesc with the order option dropped: the rows as inserted
OrderedDesc_AsInserted(rs) == {rs}

\* order: [['createdAt', 'DESC']]: the orders a query may return the rows in
OrderedDesc(rs) ==
    LET n == Len(rs)
        perms == {f \in [1..n -> 1..n] : \A i, j \in 1..n : i # j => f[i] # f[j]}
    IN {[i \in 1..n |-> rs[f[i]]] : f \in
           {g \in perms : \A i, j \in 1..n :
                i < j => rs[g[i]].createdAt >= rs[g[j]].createdAt}}

(* --------------------------------------------------------------- actions *)

\* await DATA_BASE.authenticate(): it resolves, or it rejects and the catch
\* block logs the error
authenticate ==
    /\ startup = "pending"
    /\ \E up \in BOOLEAN : startup' = IF up THEN "authenticated" ELSE "failed"
    /\ UNCHANGED <<rows, nextId, now, tableReady, reqs>>

\* DATA_BASE.sync({ alter: true }), in the database: the table is created, and
\* no row is dropped, while connectToDatabase is suspended at its await
syncExecutes ==
    /\ startup = "authenticated"
    /\ ~tableReady
    /\ tableReady' = TRUE
    /\ UNCHANGED <<rows, nextId, now, startup, reqs>>

\* await DATA_BASE.sync({ alter: true }): the reply arrives.  It resolves once
\* the table is there; or it rejects, the table created or not, and the catch
\* block logs the error
sync ==
    /\ startup = "authenticated"
    /\ \/ tableReady /\ startup' = "ok"
       \/ startup' = "failed"
    /\ UNCHANGED <<rows, nextId, now, tableReady, reqs>>

\* connectToDatabase, called once when the module is loaded
connectToDatabase == authenticate \/ syncExecutes \/ sync

\* Some request already carries the stamp t
Stamped(t) == \E k \in 1..Len(reqs) : reqs[k].createCalls > 0 /\ reqs[k].stamp = t

\* handler(event, context): one request enters the application and runs to its
\* response, to its first await, or to the read of a body parser.  The clock is read only where User.create
\* stamps a row, and only the order and the equality of stamps are observable,
\* so time is let pass (dt) only before a request that stamps, and only when
\* an earlier request holds the current time as its stamp.
Receive(in, max) ==
    /\ Len(reqs) < max
    /\ \E dt \in {0, 1} :
         LET q == app(NewRequest(in), now + dt)
         IN /\ (dt = 1 => q.pc = "create" /\ Stamped(now))
            /\ now' = now + dt
            /\ reqs' = Append(reqs, q)
    /\ UNCHANGED <<rows, nextId, tableReady, startup>>

\* The stream of request i has been read: the body parser that waited for it
\* goes on, and the chain runs to the response or to the first await
ParsersRead(i) ==
    /\ reqs[i].pc = "read"
    /\ \E dt \in {0, 1} :
         LET q == appResumes(reqs[i], now + dt)
         IN /\ (dt = 1 => q.pc = "create" /\ Stamped(now))
            /\ now' = now + dt
            /\ reqs' = [reqs EXCEPT ![i] = q]
    /\ UNCHANGED <<rows, nextId, tableReady, startup>>

\* pool: { max: 2 }: the connections the pool hands out
PoolMax == 2

\* The statements the database has executed and whose results are on their
\* way back: each holds a connection of the pool until its result arrives
InFlight == {k \in 1..Len(reqs) : reqs[k].pc \in {"afterCreate", "afterFindAll"}}

\* await User.create({ name, email, phone }), up to the moment the database
\* has executed the INSERT.  The model validators run first, in the process;
\* when they fail User.create rejects and the catch block answers.  Then a
\* connection is taken from the pool and the INSERT is sent: when there is no
\* connection to be had (up = FALSE: the database is not reachable, or the
\* pool gives none in time) User.create rejects and the catch block answers.
\* Otherwise the database executes the statement, and its result is on its way
\* back.  The database rejects a text that holds U+0000 when it reads the
\* statement's parameters, and a text too long for its column when it forms
\* the row, where the id may or may not have been drawn yet.  Otherwise the id
\* is drawn from the sequence before the unique index on email is checked, so
\* a rejected duplicate uses up an id
UserCreate(i) ==
    /\ reqs[i].pc = "create"
    /\ LET q == reqs[i]
           name == q.body.name.v
           email == q.body.email.v
           phone == q.body.phone.v
           invalid == userValidate(name, email, phone)
           sent(up) == [q EXCEPT !.queries = @ + 1,
                                 !.avail = IF up /\ tableReady THEN "up" ELSE "down"]
           executed(r) ==
               reqs' = [reqs EXCEPT ![i] =
                           [sent(TRUE) EXCEPT !.result = r, !.pc = "afterCreate"]]
           row == NewRow(nextId, name, email, phone, q.stamp)
       IN IF invalid # <<>>
          THEN /\ reqs' = [reqs EXCEPT ![i] =
                        createCatch(q, "SequelizeValidationError", invalid)]
               /\ UNCHANGED <<rows, nextId>>
          ELSE \E up \in BOOLEAN :
                 IF ~up
                 THEN /\ reqs' = [reqs EXCEPT ![i] =
                              createCatch(sent(up), "SequelizeConnectionError", <<>>)]
                      /\ UNCHANGED <<rows, nextId>>
                 ELSE /\ Cardinality(InFlight) < PoolMax
                      /\ IF ~tableReady \/ hasNul(name) \/ hasNul(email) \/ hasNul(phone)
                         THEN /\ executed(Rejected("SequelizeDatabaseError", <<>>))
                              /\ UNCHANGED <<rows, nextId>>
                         ELSE IF tooLong(name) \/ tooLong(email) \/ tooLong(phone)
                         THEN /\ executed(Rejected("SequelizeDatabaseError", <<>>))
                              /\ rows' = rows
                              /\ nextId' \in {nextId, nextId + 1}
                         ELSE /\ nextId' = nextId + 1
                              /\ IF EmailTaken(row.email)
                                 THEN /\ executed(Rejected(
                                              "SequelizeUniqueConstraintError", <<>>))
                                      /\ rows' = rows
                                 ELSE /\ executed(Resolved(row))
                                      /\ rows' = Append(rows, row)
    /\ UNCHANGED <<now, tableReady, startup>>

\* The result of the INSERT arrives: User.create settles and the handler of
\* POST /newUser goes on after its await
AfterCreate(i) ==
    /\ reqs[i].pc = "afterCreate"
    /\ reqs' = [reqs EXCEPT ![i] = postNewUserResumes(reqs[i])]
    /\ UNCHANGED <<rows, nextId, now, tableReady, startup>>

\* await User.findAll({ attributes, order }), up to the moment the database
\* has executed the SELECT: it reads the rows the table holds at that moment
UserFindAll(i) ==
    /\ reqs[i].pc = "findAll"
    /\ LET sent(up) == [reqs[i] EXCEPT !.queries = @ + 1,
                                       !.avail = IF up /\ tableReady THEN "up" ELSE "down"]
           executed(r) ==
               reqs' = [reqs EXCEPT ![i] =
                           [sent(TRUE) EXCEPT !.result = r, !.pc = "afterFindAll"]]
       IN \E up \in BOOLEAN :
            IF ~up
            THEN reqs' = [reqs EXCEPT ![i] = listCatch(sent(up), "SequelizeConnectionError")]
            ELSE /\ Cardinality(InFlight) < PoolMax
                 /\ IF ~tableReady
                    THEN executed(Rejected("SequelizeDatabaseError", <<>>))
                    ELSE \E users \in OrderedDesc(rows) : executed(Resolved(users))
    /\ UNCHANGED <<rows, nextId, now, tableReady, startup>>

\* The result of the SELECT arrives: User.findAll settles and the handler of
\* GET /allUsers goes on after its await
AfterFindAll(i) ==
    /\ reqs[i].pc = "afterFindAll"
    /\ reqs' = [reqs EXCEPT ![i] = getAllUsersResumes(reqs[i])]
    /\ UNCHANGED <<rows, nextId, now, tableReady, startup>>

(* ---------------------------------------------------------------- inputs *)

\* n code units c
Repeat(c, n) == [i \in 1..n |-> c]

Ana == <<65, 110, 97>>
Bob == <<66, 111, 98>>
Blank == <<32>>
FormFeed == <<12>>
NoBreakSpace == <<160>>
WithNul == <<65, 0>>
HalfPair == <<65, 55357>>
TooLong == Repeat(97, 256)
Padded == Repeat(97, 255) \o <<32>>
Widest == Repeat(97, 255)
MailA == <<97, 64, 120, 46, 99, 111>>
MailB == <<98, 64, 120, 46, 99, 111>>
NotMail == <<97, 120, 46, 99, 111>>
ShortTld == <<97, 64, 120, 46, 99>>
LeadingDot == <<46, 97, 64, 120, 46, 99, 111>>
DoubleDot == <<97, 46, 46, 98, 64, 120, 46, 99, 111>>
Paren == <<40, 64, 120, 46, 99, 111>>
NumericTld == <<97, 64, 120, 46, 49, 50>>
HyphenLabel == <<97, 64, 45, 46, 99, 111>>
QuotedMail == <<34, 97, 32, 64, 98, 34, 64, 120, 46, 99, 111>>
HalfPairMail == <<55357, 64, 120, 46, 99, 111>>
Phone == <<49, 50, 51>>

\* A request: its method and path, req.body as the host hands it over, the
\* kind of its Content-Type ("json" for application/json and text/plain,
\* "form" for application/x-www-form-urlencoded, "none" for any other or
\* none), and what is wrong with it for a parser that reads it ("charset",
\* "tooLarge") or "none"
Request(method, path, body, type, fault) ==
    [method |-> method, path |-> path, body |-> body, type |-> type,
     fault |-> fault]

Post(body) == Request("POST", "/newUser", body, "json", "none")
Json(o) == Buffer(Text(0, JsonDoc(o)))

ValidA == Obj(Str(Ana), Str(MailA), Str(Phone))
ValidB == Obj(Str(Ana), Str(MailB), Str(Phone))

Greeting == Request("GET", "/saludo", Buffer(Text(0, NoDoc)), "none", "none")
List == Request("GET", "/allUsers", Buffer(Text(0, NoDoc)), "none", "none")

\* The requests of the concurrent specification: the greeting, the list, and
\* one create, which received twice is two creates of the same email
CoreInputs == {Greeting, List, Post(Json(ValidA))}

\* The requests of the list specification: the list and two creates of
\* different emails
ListInputs == {List, Post(Json(ValidA)), Post(Json(ValidB))}

\* The candidate objects of the wide-input specification: ValidA with one field
\* changed, and the empty object
WideObjects ==
    {Obj(n, Str(MailA), Str(Phone)) :
        n \in {Undef, Str(<<>>), Str(Blank), Str(FormFeed), Str(NoBreakSpace),
               Str(Ana), Str(WithNul), Str(HalfPair), Str(TooLong), Str(Padded),
               Str(Widest)}}
    \cup {Obj(Str(Ana), e, Str(Phone)) :
            e \in {Undef, Str(<<>>), Str(Blank), Str(NotMail), Str(ShortTld),
                   Str(LeadingDot), Str(DoubleDot), Str(Paren), Str(NumericTld),
                   Str(HyphenLabel), Str(QuotedMail), Str(HalfPairMail)}}
    \cup {Obj(Str(Ana), Str(MailA), p) : p \in {Undef, Str(<<>>), Str(Blank)}}
    \cup {EmptyObj}

NoPhone == Obj(Str(Ana), Str(MailA), Undef)

WideBodies ==
    {Undef}
    \cup {Buffer(Text(n, d)) : n \in {0, 2}, d \in {NoDoc, Garbage}}
    \cup {StrBody(Text(0, NoDoc)), StrBody(Text(2, NoDoc)), StrBody(Text(0, JsonDoc(ValidA)))}
    \cup {Json(o) : o \in WideObjects}
    \cup {Json(Str(Ana)), Json(Null), Buffer(Text(2, JsonDoc(ValidA)))}
    \cup {ValidA, EmptyObj, Obj(Str(Ana), Str(NotMail), Str(Phone)), NoPhone}

\* Bodies sent with every kind of Content-Type
TypedBodies ==
    {Undef, Buffer(Text(0, NoDoc)), Buffer(Text(2, NoDoc)), Buffer(Text(0, Garbage)),
     Json(ValidA), Json(NoPhone), Json(Str(Ana)), Json(Null),
     Buffer(Text(0, FormDoc(ValidA))),
     StrBody(Text(0, JsonDoc(ValidA))), StrBody(Text(0, FormDoc(ValidA))),
     StrBody(Text(0, FormDoc(NoPhone))), StrBody(Text(0, Garbage)), ValidA}

\* Bodies sent in a charset that is not utf-8, and bodies over the limit
FaultyBodies ==
    {Buffer(Text(2, NoDoc)), Buffer(Text(0, Garbage)), Json(ValidA), Json(NoPhone),
     Buffer(Text(2, JsonDoc(ValidA)))}

\* The requests of the wide-input specification
WideInputs ==
    {Post(b) : b \in WideBodies}
    \cup {Request("POST", "/newUser", b, t, "none") :
            b \in TypedBodies, t \in {"none", "form"}}
    \cup {Request("POST", "/newUser", b, t, f) :
            b \in FaultyBodies, t \in {"json", "form"}, f \in {"charset", "tooLarge"}}
    \cup {Request("POST", "/newUser", Buffer(Text(0, NoDoc)), "json", "charset")}
    \cup {Request("GET", p, b, t, "none") :
            p \in {"/saludo", "/allUsers"},
            b \in {Undef, Buffer(Text(0, Garbage))},
            t \in {"none", "json"}}

(* -------------------------------------------------------- specifications *)

Init ==
    /\ rows = <<>>
    /\ nextId = 1
    /\ now = 0
    /\ tableReady \in BOOLEAN
    /\ startup = "pending"
    /\ reqs = <<>>

Next ==
    \/ connectToDatabase
    \/ \E in \in CoreInputs : Receive(in, MaxReqs)
    \/ \E i \in 1..Len(reqs) : ParsersRead(i)
    \/ \E i \in 1..Len(reqs) : UserCreate(i)
    \/ \E i \in 1..Len(reqs) : AfterCreate(i)
    \/ \E i \in 1..Len(reqs) : UserFindAll(i)
    \/ \E i \in 1..Len(reqs) : AfterFindAll(i)

Spec == Init /\ [][Next]_vars

NextWide ==
    \/ connectToDatabase
    \/ \E in \in WideInputs : Receive(in, MaxWideReqs)
    \/ \E i \in 1..Len(reqs) : ParsersRead(i)
    \/ \E i \in 1..Len(reqs) : UserCreate(i)
    \/ \E i \in 1..Len(reqs) : AfterCreate(i)
    \/ \E i \in 1..Len(reqs) : UserFindAll(i)
    \/ \E i \in 1..Len(reqs) : AfterFindAll(i)

SpecWide == Init /\ [][NextWide]_vars

NextList ==
    \/ connectToDatabase
    \/ \E in \in ListInputs : Receive(in, MaxReqs)
    \/ \E i \in 1..Len(reqs) : ParsersRead(i)
    \/ \E i \in 1..Len(reqs) : UserCreate(i)
    \/ \E i \in 1..Len(reqs) : AfterCreate(i)
    \/ \E i \in 1..Len(reqs) : UserFindAll(i)
    \/ \E i \in 1..Len(reqs) : AfterFindAll(i)

SpecList == Init /\ [][NextList]_vars

(* ------------------------------------------------- vocabulary of claims *)

IsCreate(q) == q.method = "POST" /\ q.path = "/newUser"
IsList(q) == q.method = "GET" /\ q.path = "/allUsers"
IsGreeting(q) == q.method = "GET" /\ q.path = "/saludo"

\* The raw bytes of the body decode to non-empty text that is not JSON
IsMalformed(b) == b.t = "buffer" /\ b.text.doc.t \in {"garbage", "form"}

\* The raw bytes of the body decode to empty or whitespace-only text
IsEmptyBytes(b) == b.t = "buffer" /\ b.text.doc = NoDoc

\* The text is the JSON text of an object
IsJsonObject(text) == text.doc.t = "json" /\ text.doc.v.t = "object"

\* The object a request submits, read as its Content-Type says.  As JSON: the
\* object its bytes are the JSON text of.  As a form: the object of the fields
\* of its bytes, unless the body is a Buffer, which is read as JSON whatever
\* the type.  Of any other type: the body when it is an object, or the object
\* a Buffer holds the JSON text of.  The empty object when there is none
Submitted(q) ==
    LET b == q.given
    IN CASE q.type = "json" /\ b.t = "object" -> b
         [] q.type = "json" /\ b.t \in {"buffer", "text"} /\ IsJsonObject(b.text)
               -> b.text.doc.v
         [] q.type = "form" /\ b.t = "text" /\ b.text.doc.t = "form" -> b.text.doc.v
         [] q.type = "none" /\ b.t = "object" -> b
         [] q.type = "none" /\ b.t = "buffer" /\ IsJsonObject(b.text) -> b.text.doc.v
         [] OTHER -> EmptyObj

\* A body parser reads the request: it is of the parser's type
ParserReads(q) == q.type \in {"json", "form"}

\* The request waits for a body parser to read its stream: it has passed the
\* normalizer, has no response yet and has not reached a handler
AtRead(q) == q.pc = "read" /\ q.res = <<>> /\ q.routed = "none" /\ q.perr = NoError

\* The chain answers the request in the turn that receives it: no body parser
\* reads it, or the normalizer or a parser's charset check rejects it
AnsweredAtOnce(q) ==
    ~ParserReads(q) \/ IsMalformed(q.given) \/ q.fault = "charset"

MissingOrEmpty(v) == v = Undef \/ v = Str(<<>>)
NonEmptyString(v) == v.t = "string" /\ v.v # <<>>

SomeFieldMissing(o) ==
    MissingOrEmpty(o.name) \/ MissingOrEmpty(o.email) \/ MissingOrEmpty(o.phone)

\* The response of a request that has exactly one
Status(q) == q.res[1].status
Body(q) == q.res[1].body

\* The 400 of the handler's field check
AllFieldsRequired(q) ==
    /\ q.pc = "done"
    /\ Len(q.res) = 1
    /\ Status(q) = 400
    /\ DOMAIN Body(q) = {"error", "received", "bodyType"}
    /\ Body(q).error = "Todos los campos son requeridos: name, email, phone"

\* The 400 of the body normalizer
MalformedBody(q) ==
    /\ q.pc = "done"
    /\ Len(q.res) = 1
    /\ Status(q) = 400
    /\ Body(q) = [error |-> "Formato de datos inválido",
                  details |-> DetailText("No se pudo parsear el JSON")]

\* The request never reached the store
NoStoreAccess(q) ==
    q.createCalls = 0 /\ q.queries = 0 /\ q.avail = "none" /\ q.result = Pending

\* Some stored row holds the email
Holds(email) == \E k \in 1..Len(rows) : rows[k].email = email

\* The column stores the text as it is: no U+0000, no surrogate without its
\* partner, at most 255 characters
Fits(s) == ~hasNul(s) /\ WellFormed(s) /\ Characters(s) <= ColumnWidth

\* Request i takes the step from position a to position b
Moves(i, a, b) == reqs[i].pc = a /\ reqs'[i].pc = b

(* ---------------------------------------------------------------- claims *)

\* The error middleware answered the request with the error a body parser
\* raised for it
ParserErrorAnswered(q) ==
    /\ q.pc = "done"
    /\ Len(q.res) = 1
    /\ q.routed = "errorMiddleware"
    /\ Status(q) = q.perr.status
    /\ Body(q) = [error |-> q.perr.message]

\* C3 as claimed: a create request whose body lacks name, email or phone, or
\* has one of them empty, is answered 400, and the store is not touched, so
\* the stored rows are the same after as before.
C3_AsClaimed ==
    \A i \in 1..Len(reqs) :
        LET q == reqs[i]
        IN (IsCreate(q) /\ SomeFieldMissing(Submitted(q)))
           => /\ q.pc = "done" \/ AtRead(q)
              /\ q.pc = "done" => Status(q) = 400
              /\ NoStoreAccess(q)

\* C3 as amended: such a request never touches the store, so the stored rows
\* are the same after as before, and it is answered, in the turn that receives
\* it or, when a body parser reads it, when the parser has read it: 400 with
\* the malformed-body indication by the normalizer when its bytes are not
\* JSON; else, when a body parser raises an error for it, by the error
\* middleware with the status of that error (400 for text the strict JSON
\* parser rejects, 415 for a charset that is not utf-8, 413 for a body over
\* the limit); else 400 by the handler's field check.
C3_MissingFieldRejected ==
    \A i \in 1..Len(reqs) :
        LET q == reqs[i]
        IN (IsCreate(q) /\ SomeFieldMissing(Submitted(q)))
           => /\ NoStoreAccess(q)
              /\ q.createCalls = 0
              /\ q.pc = "done" \/ (AtRead(q) /\ ENABLED ParsersRead(i))
              /\ AnsweredAtOnce(q) => q.pc = "done"
              /\ q.pc = "done"
                    => /\ IF IsMalformed(q.given)
                          THEN MalformedBody(q) /\ q.routed = "none"
                          ELSE IF q.perr # NoError
                          THEN ParserErrorAnswered(q) /\ ParserReads(q)
                          ELSE AllFieldsRequired(q) /\ q.routed = "newUser"
                       /\ Status(q) # 400
                             => q.fault # "none" /\ Status(q) \in {413, 415}
                       /\ (q.fault = "none" \/ ~ParserReads(q)) => Status(q) = 400

\* One create without a phone was answered by the field check, or one whose
\* body is over the limit was answered 413, the rows left as they were
C3_Witness ==
    \E i \in 1..Len(reqs) :
        /\ IsCreate(reqs[i])
        /\ rows = <<>>
        /\ \/ /\ reqs[i].given = Json(Obj(Str(Ana), Str(MailA), Str(<<>>)))
              /\ AllFieldsRequired(reqs[i])
           \/ /\ reqs[i].given = Json(NoPhone)
              /\ reqs[i].fault = "tooLarge"
              /\ ParserErrorAnswered(reqs[i])
              /\ Status(reqs[i]) = 413

C6_MalformedBodyStops ==
    \A i \in 1..Len(reqs) :
        LET q == reqs[i]
        IN (q.method = "POST" /\ IsMalformed(q.given))
           => MalformedBody(q) /\ q.routed = "none" /\ NoStoreAccess(q)

C6_Witness ==
    \E i \in 1..Len(reqs) :
        /\ reqs[i].method = "POST"
        /\ IsMalformed(reqs[i].given)
        /\ ParserReads(reqs[i])
        /\ reqs[i].fault # "none"
        /\ MalformedBody(reqs[i])

\* The candidate object breaks a rule of the validation layer: a field is
\* missing or empty, or the email does not have the shape of an address
ViolatesRules(o) ==
    \/ SomeFieldMissing(o)
    \/ ~(NonEmptyString(o.name) /\ NonEmptyString(o.email) /\ NonEmptyString(o.phone))
    \/ ~isEmail(o.email.v)

\* C7 as claimed: User.create is never called for a create request whose body
\* is malformed or whose candidate object breaks a validation rule.
C7_AsClaimed ==
    \A i \in 1..Len(reqs) :
        LET q == reqs[i]
        IN (IsCreate(q) /\ (IsMalformed(q.given) \/ ViolatesRules(Submitted(q))))
           => q.createCalls = 0

\* C7 as amended: for such a request no query is ever sent to the database and
\* the answer is 400, or the status of the error a body parser raised for it
\* (413, 415), in which case User.create is not called; a malformed body or a
\* missing or empty field is answered before User.create is called, while an
\* email of the wrong shape is passed to User.create, whose model validators
\* reject it before the INSERT is sent.
C7_NoQueryForInvalid ==
    \A i \in 1..Len(reqs) :
        LET q == reqs[i]
            o == Submitted(q)
        IN (IsCreate(q) /\ (IsMalformed(q.given) \/ ViolatesRules(o)))
           => /\ q.queries = 0 /\ q.avail = "none" /\ q.result = Pending
              /\ (IsMalformed(q.given) \/ SomeFieldMissing(o)) => q.createCalls = 0
              /\ (q.pc = "done" /\ q.perr = NoError) => Status(q) = 400
              /\ q.perr # NoError
                    => /\ ParserErrorAnswered(q)
                       /\ q.createCalls = 0
                       /\ Status(q) \in {400, 413, 415}
                       /\ Status(q) # 400 => q.fault # "none"
              /\ (q.pc = "done" /\ q.createCalls > 0)
                    => /\ q.cause = "SequelizeValidationError"
                       /\ Body(q).details =
                              DetailList(userValidate(o.name.v, o.email.v, o.phone.v))

C7_Witness ==
    \E i \in 1..Len(reqs) :
        /\ reqs[i].given = Json(Obj(Str(Ana), Str(NotMail), Str(Phone)))
        /\ reqs[i].pc = "done"
        /\ reqs[i].createCalls = 1
        /\ reqs[i].queries = 0
        /\ Status(reqs[i]) = 400

\* Every request has at most one response, has one exactly when it is done, and
\* one that is not done is at an await that can complete
OneResponseEach ==
    \A i \in 1..Len(reqs) :
        LET q == reqs[i]
        IN /\ Len(q.res) <= 1
           /\ (q.pc = "done") <=> (Len(q.res) = 1)
           /\ q.pc \in {"done", "read", "create", "afterCreate", "findAll", "afterFindAll"}
           /\ q.pc = "read" => ENABLED ParsersRead(i)
           /\ q.pc = "create" => ENABLED UserCreate(i)
           /\ q.pc = "afterCreate" => ENABLED AfterCreate(i)
           /\ q.pc = "findAll" => ENABLED UserFindAll(i)
           /\ q.pc = "afterFindAll" => ENABLED AfterFindAll(i)

\* C10 as claimed: every request receives exactly one response, and its status
\* is one of 200, 201, 400, 409, 500.
C10_AsClaimed ==
    /\ OneResponseEach
    /\ \A i \in 1..Len(reqs) :
          reqs[i].pc = "done" => Status(reqs[i]) \in {200, 201, 400, 409, 500}

\* C10 as amended: every request receives exactly one response; its status is
\* one of 200, 201, 400, 409, 500, or, when an error raised by a middleware
\* reaches the final error middleware, the status that error declares.
C10_ExactlyOneResponse ==
    /\ OneResponseEach
    /\ \A i \in 1..Len(reqs) :
          LET q == reqs[i]
          IN q.pc = "done"
             => \/ Status(q) \in {200, 201, 400, 409, 500}
                \/ q.routed = "errorMiddleware" /\ Status(q) = q.perr.status

C10_Witness ==
    \E i \in 1..Len(reqs) :
        /\ reqs[i].method = "POST"
        /\ IsMalformed(reqs[i].given)
        /\ Len(reqs[i].res) = 1
        /\ reqs[i].routed = "none"

\* The create request q submits what the claim asks for: name, email and phone
\* non-empty strings, the email of the shape of an address
ValidCreate(q) ==
    IsCreate(q) /\ q.perr = NoError /\ ~ViolatesRules(Submitted(q))

\* The database executes the INSERT of request i in this step and stores the
\* submitted object o as one new row with a generated id
Stored(i, o) ==
    LET r == reqs'[i].result
    IN /\ r.t = "resolved"
       /\ r.value.id \in Nat
       /\ r.value.id = nextId
       /\ \A k \in 1..Len(rows) : rows[k].id # r.value.id
       /\ r.value.name = o.name.v
       /\ r.value.email = o.email.v
       /\ r.value.phone = o.phone.v
       /\ rows' = Append(rows, r.value)

\* The handler answers request i in this step with 201 and the stored user
Created(i) ==
    LET p == reqs'[i]
    IN /\ Len(p.res) = 1
       /\ Status(p) = 201
       /\ DOMAIN Body(p) = {"message", "user"}
       /\ Body(p).user = reqs[i].result.value
       /\ Cardinality({k \in 1..Len(rows) : rows[k] = Body(p).user}) = 1
       /\ rows' = rows

\* C1 as claimed: a create request with name, email and phone non-empty
\* strings, the email of the shape of an address and held by no stored row,
\* and the store available, has exactly one row with the submitted values
\* added, and is answered 201 with that row as the user.
C1_AsClaimed ==
    [][\A i \in 1..Len(reqs) :
          LET q == reqs[i]
              o == Submitted(q)
          IN /\ (/\ q.pc = "create" /\ reqs'[i].pc # "create"
                 /\ ValidCreate(q)
                 /\ ~Holds(o.email.v)
                 /\ reqs'[i].avail # "down")
                => Stored(i, o)
             /\ (Moves(i, "afterCreate", "done") /\ q.result.t = "resolved")
                => Created(i)]_vars

\* C1 as amended: the same, for fields that each hold a character that is not
\* whitespace and that the columns store as they are (no U+0000, no surrogate
\* without its partner, at most 255 characters).
C1_ValidCreateStored ==
    [][\A i \in 1..Len(reqs) :
          LET q == reqs[i]
              o == Submitted(q)
          IN /\ (/\ q.pc = "create" /\ reqs'[i].pc # "create"
                 /\ ValidCreate(q)
                 /\ notEmpty(o.name.v) /\ notEmpty(o.email.v) /\ notEmpty(o.phone.v)
                 /\ Fits(o.name.v) /\ Fits(o.email.v) /\ Fits(o.phone.v)
                 /\ ~Holds(o.email.v)
                 /\ reqs'[i].avail # "down")
                => Stored(i, o)
             /\ (Moves(i, "afterCreate", "done") /\ q.result.t = "resolved")
                => Created(i)]_vars

C1_Witness ==
    \E i \in 1..Len(reqs) :
        /\ reqs[i].given = Json(ValidA)
        /\ reqs[i].pc = "done"
        /\ Status(reqs[i]) = 201
        /\ Body(reqs[i]).user =
              [id |-> 1, name |-> Ana, email |-> MailA, phone |-> Phone,
               createdAt |-> 0, updatedAt |-> 0]
        /\ rows = <<Body(reqs[i]).user>>

\* Internal errors that are none of MalformedBody, ValidationFailed, DuplicateEmail
OtherErrorNames == {"SequelizeConnectionError", "SequelizeDatabaseError", "TypeError"}
OtherErrorMessages == {"connect ECONNREFUSED", "read ECONNRESET"}

\* The request failed inside a route handler for such a reason
HandlerFailure(q) == q.pc = "done" /\ q.cause \in OtherErrorNames

\* The request failed in a middleware, with an error that is not a parse error
MiddlewareFailure(q) ==
    q.pc = "done" /\ q.routed = "errorMiddleware" /\ q.perr.status # 400

\* The response of the route handler does not depend on the internal error: the
\* catch block answers every other internal error in the same way
SameForAnyHandlerError(q) ==
    \A e \in OtherErrorNames :
        LET awaiting == [q EXCEPT !.res = <<>>, !.pc = "await"]
        IN q.res = IF IsCreate(q) THEN createCatch(awaiting, e, <<>>).res
                   ELSE listCatch(awaiting, e).res

\* The response of the error middleware does not depend on the message of the
\* error it is given
SameForAnyMessage(q) ==
    \A m \in OtherErrorMessages :
        LET failing == [q EXCEPT !.res = <<>>, !.pc = "error", !.perr.message = m]
        IN q.res = errorMiddleware(failing).res

\* C8 as claimed: a request that fails for any other reason, in a handler or on
\* the way to the final error middleware, is answered 500 with a body that is
\* the same whatever the internal error says.
C8_AsClaimed ==
    \A i \in 1..Len(reqs) :
        LET q == reqs[i]
        IN /\ HandlerFailure(q) => Status(q) = 500 /\ SameForAnyHandlerError(q)
           /\ MiddlewareFailure(q) => Status(q) = 500 /\ SameForAnyMessage(q)

\* C8 as amended: a failure inside the create or list handler for any other
\* reason is answered 500 with that handler's fixed message, whatever the
\* internal error; an error that reaches the final error middleware is answered
\* with the status it declares and with its own message as the body's error
\* field, and an error without a status in its place would be answered 500
\* with its message.
C8_GenericHandlerFailure ==
    \A i \in 1..Len(reqs) :
        LET q == reqs[i]
        IN /\ HandlerFailure(q)
              => /\ Status(q) = 500
                 /\ SameForAnyHandlerError(q)
                 /\ Body(q) \in
                      {[error |-> "Error interno del servidor al crear el usuario"],
                       [error |-> "Error interno del servidor al obtener los usuarios"]}
           /\ (q.pc = "done" /\ q.routed = "errorMiddleware")
              => /\ Status(q) = (IF q.perr.status = 0 THEN 500 ELSE q.perr.status)
                 /\ Body(q) = [error |-> q.perr.message]
                 /\ \A m \in OtherErrorMessages :
                       LET failing == [q EXCEPT !.res = <<>>, !.pc = "error",
                                                !.perr = Err(0, m)]
                       IN errorMiddleware(failing).res =
                             <<[status |-> 500, body |-> [error |-> m]]>>

C8_Witness ==
    \E i \in 1..Len(reqs) :
        /\ IsCreate(reqs[i])
        /\ reqs[i].cause = "SequelizeDatabaseError"
        /\ reqs[i].pc = "done"
        /\ Status(reqs[i]) = 500

(* ----------------------------------------- claims about concurrent requests *)

\* The create requests whose INSERT stored a row, answered or not yet
Inserted == {i \in 1..Len(reqs) : IsCreate(reqs[i]) /\ reqs[i].result.t = "resolved"}

\* The create requests answered 201
Successes == {i \in Inserted : reqs[i].pc = "done"}

UniqueEmails ==
    \A j, k \in 1..Len(rows) : rows[j].email = rows[k].email => j = k

AtMostOneSuccessPerEmail ==
    \A i, j \in Inserted :
        Submitted(reqs[i]).email = Submitted(reqs[j]).email => i = j

\* C2: in every interleaving of create requests no two rows hold the same
\* email and at most one create per email stores a row and is answered 201; an
\* INSERT that the database executes while a row holds its email is rejected
\* and leaves the rows as they were, and the request is then answered 409.
C2_EmailStaysUnique ==
    [][/\ UniqueEmails'
       /\ AtMostOneSuccessPerEmail'
       /\ \A i \in Successes' : Status(reqs'[i]) = 201
       /\ \A i \in 1..Len(reqs) :
             LET q == reqs[i]
                 o == Submitted(q)
             IN /\ (/\ Moves(i, "create", "afterCreate")
                    /\ reqs'[i].avail = "up"
                    /\ Fits(o.name.v) /\ Fits(o.phone.v)
                    /\ Holds(o.email.v))
                   => /\ reqs'[i].result =
                            Rejected("SequelizeUniqueConstraintError", <<>>)
                      /\ rows' = rows
                /\ (/\ Moves(i, "afterCreate", "done")
                    /\ q.result = Rejected("SequelizeUniqueConstraintError", <<>>))
                   => Status(reqs'[i]) = 409 /\ rows' = rows]_vars

\* Two creates of one email were in flight together; the one received first
\* was answered 409, the other 201
C2_Witness ==
    \E i, j \in 1..Len(reqs) :
        /\ i < j
        /\ reqs[i].given = Json(ValidA) /\ reqs[j].given = Json(ValidA)
        /\ reqs[i].pc = "done" /\ reqs[j].pc = "done"
        /\ Status(reqs[i]) = 409 /\ Status(reqs[j]) = 201
        /\ Len(rows) = 1 /\ rows[1].id = 1

\* The stored rows are exactly the rows the INSERTs of the create requests
\* stored, and those of the creates answered 201 are among them
RowsAreTheInserted ==
    /\ Range(rows) = {reqs[i].result.value : i \in Inserted}
    /\ Len(rows) = Cardinality(Inserted)
    /\ \A i \in Successes : Body(reqs[i]).user = reqs[i].result.value

\* users is in descending order of createdAt
NewestFirst(users) ==
    \A j, k \in 1..Len(users) : j < k => users[j].createdAt >= users[k].createdAt

\* The rows of the creates answered 201
Answered == {Body(reqs[i]).user : i \in Successes}

\* C4 as claimed: a list request that finds the store available is answered
\* 200 with message, count and users; users holds exactly the rows of the
\* creates answered 201 when the list reads the table, newest first, and count
\* is its length; the list leaves the rows as they were.
C4_AsClaimed ==
    [][\A i \in 1..Len(reqs) :
          LET q == reqs[i]
              p == reqs'[i]
          IN /\ (Moves(i, "findAll", "afterFindAll") /\ p.avail = "up")
                => /\ p.result.t = "resolved"
                   /\ Range(p.result.value) = Answered
                   /\ Len(p.result.value) = Cardinality(Successes)
                   /\ NewestFirst(p.result.value)
                   /\ rows' = rows
             /\ (Moves(i, "afterFindAll", "done") /\ q.result.t = "resolved")
                => /\ Status(p) = 200
                   /\ Body(p).users = q.result.value
                   /\ Body(p).count = Len(Body(p).users)
                   /\ rows' = rows]_vars

\* C4 as amended: a list request that finds the store available is answered
\* 200 with message, count and users.  users holds the rows the table held
\* when the database executed the SELECT, in descending order of createdAt,
\* and count is its length; it holds the row of every create answered 201 by
\* then, and exactly those rows unless a create has stored its row and is not
\* answered yet.  The list leaves the rows as they were, and two lists that
\* read the same number of rows hold the same users.
C4_ListAllNewestFirst ==
    [][/\ RowsAreTheInserted'
       /\ \A i \in 1..Len(reqs) :
             LET q == reqs[i]
                 p == reqs'[i]
             IN /\ (Moves(i, "findAll", "afterFindAll") /\ p.avail = "up")
                   => /\ p.result.t = "resolved"
                      /\ Len(p.result.value) = Len(rows)
                      /\ Range(p.result.value) = Range(rows)
                      /\ NewestFirst(p.result.value)
                      /\ Answered \subseteq Range(p.result.value)
                      /\ Inserted = Successes
                            => /\ Range(p.result.value) = Answered
                               /\ Len(p.result.value) = Cardinality(Successes)
                      /\ rows' = rows
                      /\ \A j \in 1..Len(reqs) :
                            (/\ IsList(reqs[j])
                             /\ reqs[j].result.t = "resolved"
                             /\ Len(reqs[j].result.value) = Len(p.result.value))
                            => Range(reqs[j].result.value) = Range(p.result.value)
                /\ (Moves(i, "afterFindAll", "done") /\ q.result.t = "resolved")
                   => /\ Len(p.res) = 1
                      /\ Status(p) = 200
                      /\ DOMAIN Body(p) = {"message", "count", "users"}
                      /\ Body(p).users = q.result.value
                      /\ Body(p).count = Len(Body(p).users)
                      /\ rows' = rows]_vars

\* Two users were created at different times, both were answered 201, and a
\* list received after that has the later one first
C4_Witness ==
    \E i \in 1..Len(reqs) :
        /\ IsList(reqs[i]) /\ reqs[i].pc = "done" /\ Status(reqs[i]) = 200
        /\ Successes = {1, 2} /\ i = 3
        /\ Body(reqs[i]).count = 2
        /\ Body(reqs[i]).users[1].createdAt > Body(reqs[i]).users[2].createdAt
        /\ Body(reqs[i]).users[1] = rows[1]

\* C9: after connectToDatabase has failed it is not run again, and requests
\* are still received and can go on.  In every state a store operation is sent
\* at most once per request; a request whose store operation finds the store
\* unavailable is answered 500; the greeting is answered 200 without a store
\* operation; and a request whose store operation finds the store available is
\* answered as if nothing had failed before: 200 for a list, 201 or 409 for a
\* create.
C9_StartupFailureNotFatal ==
    /\ startup = "failed"
       => /\ ~ENABLED connectToDatabase
          /\ Len(reqs) < MaxReqs => \A in \in CoreInputs : ENABLED Receive(in, MaxReqs)
          /\ \A i \in 1..Len(reqs) :
                /\ reqs[i].pc = "read" => ENABLED ParsersRead(i)
                /\ reqs[i].pc = "create" => ENABLED UserCreate(i)
                /\ reqs[i].pc = "afterCreate" => ENABLED AfterCreate(i)
                /\ reqs[i].pc = "findAll" => ENABLED UserFindAll(i)
                /\ reqs[i].pc = "afterFindAll" => ENABLED AfterFindAll(i)
    /\ \A i \in 1..Len(reqs) :
          LET q == reqs[i]
              o == Submitted(q)
          IN /\ q.queries <= 1
             /\ q.pc \in {"done", "read", "create", "afterCreate", "findAll", "afterFindAll"}
             /\ IsGreeting(q) => q.pc = "done" /\ Status(q) = 200 /\ NoStoreAccess(q)
             /\ (q.pc = "done" /\ q.avail = "down") => Status(q) = 500 /\ q.queries = 1
             /\ (q.pc = "done" /\ q.avail = "up" /\ IsList(q)) => Status(q) = 200
             /\ (q.pc = "done" /\ q.avail = "up" /\ IsCreate(q)
                    /\ Fits(o.name.v) /\ Fits(o.phone.v))
                   => Status(q) \in {201, 409}

\* Startup failed; a list then failed with 500, the greeting was answered, and a
\* later create succeeded
C9_Witness ==
    /\ startup = "failed"
    /\ \E i, j, k \in 1..Len(reqs) :
          /\ i < j /\ j < k
          /\ IsList(reqs[i]) /\ reqs[i].pc = "done" /\ Status(reqs[i]) = 500
          /\ IsGreeting(reqs[j]) /\ Status(reqs[j]) = 200
          /\ IsCreate(reqs[k]) /\ reqs[k].pc = "done" /\ Status(reqs[k]) = 201

====
